---- MODULE Spec2Model ----
(***************************************************************************)
(* Model of internal/http3/stream.go: the stream type that wraps a QUIC    *)
(* stream and enforces HTTP/3 frame boundaries with the read limit lim.    *)
(*                                                                         *)
(* One action per method of stream.  The wrapped quic.Stream is the        *)
(* environment: for every call the methods make on it, the answer (bytes,  *)
(* io.EOF, another error) is chosen nondeterministically from bounded      *)
(* sets.  A clean end of the transport is permanent.                       *)
(***************************************************************************)
EXTENDS Integers, Sequences, FiniteSets, TLC

\* ---------------------------------------------------------------- bounds
\* Largest value of a varint the transport delivers (a frame length, or the
\* operand of readVarint).
MaxLen == 3
\* Largest buffer handed to Read, and largest chunk one transport Read returns.
MaxBuf == 2
\* Inside a frame the transport delivers no further bytes once it has
\* delivered this many.
MaxDelivered == 5
\* Layers of an error given to backport.ErrorIs.
MaxChain == 3

\* ------------------------------------------------------- values and errors
Nil == "nil"
ErrH3FrameError == "errH3FrameError"
EOF == "io.EOF"
ErrUnexpectedEOF == "io.ErrUnexpectedEOF"
ErrTransport == "transport error"
Panic == "panic"

\* The stream field: the wrapped *quic.Stream, or nil once the limit was passed.
QS == "qs"
NilStream == "nil stream"

\* Payload bytes the transport delivers to ReadByte, Read and readFrameData.
DataBytes == {0, 1}

\* Frame types the transport delivers (DATA, HEADERS).
FrameTypes == {0, 1}

\* Slices handed to Write.
WriteSlices == {<<>>, <<1>>, <<0, 1>>}

Min(a, b) == IF a < b THEN a ELSE b

RECURSIVE Pow(_, _)
Pow(b, e) == IF e = 0 THEN 1 ELSE b * Pow(b, e - 1)

SeqsUpTo(S, lo, hi) == UNION {[1..n -> S] : n \in lo..hi}

VARIABLES
    lim,        \* stream.lim
    stream,     \* stream.stream: QS or NilStream
    tEOF,       \* the transport has reported its clean end
    plim,       \* lim when the last method was called
    pstream,    \* stream when the last method was called
    op,         \* the method called last
    err,        \* the error it returned (Nil, an error, or Panic)
    retN,       \* the number it returned (byte, count, frame type; int64 of readVarint)
    retB,       \* the bytes it returned (Read, readFrameData)
    got,        \* the bytes the transport delivered during the call
    tend,       \* the error the transport answered during the call, if any
    vk,         \* bytes of the varint in progress when the transport failed
    tcalls,     \* transport methods invoked during the call
    wrote,      \* the bytes handed to the transport during the call
    arg,        \* the argument of the call (Write, writeVarint), else <<>>
    failed,     \* a call before the last one returned errH3FrameError
    declared,   \* the length set by the last successful readFrameHeader
    \* The account of the frame open at the last call (or opened by it):
    delivered,  \* bytes the transport delivered since its header
    clean,      \* every read since its header succeeded, no header was tried
    consumed,   \* while clean: bytes the reads since its header returned
    \* backport.ErrorIs(err, target) and its result:
    errArg,     \* err, its layers from the outermost to the innermost
    target,
    isResult

vars == <<lim, stream, tEOF, plim, pstream, op, err, retN, retB, got, tend, vk, tcalls, wrote,
          arg, failed, declared, delivered, clean, consumed, errArg, target, isResult>>

\* ------------------------------------------------------------- newStream
newStream == [lim |-> -1, stream |-> QS]

\* --------------------------------------------------------- recordBytesRead
\* Mutant: the limit check is off by one (st.lim < -1 in place of st.lim < 0),
\* so a read may pass the limit by one byte unnoticed.
recordBytesRead_OffByOne(st, n) ==
    IF st.lim < 0
    THEN [lim |-> st.lim, stream |-> st.stream, err |-> Nil]
    ELSE IF st.lim - n < -1
         THEN [lim |-> st.lim - n, stream |-> NilStream, err |-> ErrH3FrameError]
         ELSE [lim |-> st.lim - n, stream |-> st.stream, err |-> Nil]

\* Mutant: a read past the limit is reported, but the handle is kept.
recordBytesRead_KeepsHandle(st, n) ==
    IF st.lim < 0
    THEN [lim |-> st.lim, stream |-> st.stream, err |-> Nil]
    ELSE IF st.lim - n < 0
         THEN [lim |-> st.lim - n, stream |-> st.stream, err |-> ErrH3FrameError]
         ELSE [lim |-> st.lim - n, stream |-> st.stream, err |-> Nil]

recordBytesRead(st, n) ==
    IF st.lim < 0
    THEN [lim |-> st.lim, stream |-> st.stream, err |-> Nil]
    ELSE IF st.lim - n < 0
         THEN [lim |-> st.lim - n, stream |-> NilStream, err |-> ErrH3FrameError]
         ELSE [lim |-> st.lim - n, stream |-> st.stream, err |-> Nil]

\* An outcome of one method call: the new fields, what is returned, and what
\* happened on the transport.
Outcome(l, s, e, n, b, g, te, k, tc) ==
    [lim |-> l, stream |-> s, err |-> e, n |-> n, data |-> b, got |-> g,
     tend |-> te, vk |-> k, tcalls |-> tc, wrote |-> <<>>]

\* A method invoked on the nil *quic.Stream: a nil-pointer panic, nothing done.
NilDeref(st) == Outcome(st.lim, st.stream, Panic, 0, <<>>, <<>>, Nil, 0, 0)

\* ------------------------------------------------------------------ varints
\* n := 1 << (b >> 6)
VarintLen(b) == Pow(2, b \div 64)

\* An int64 v >= 0 is its eight bytes, most significant first:
\* d[8] = byte(v), d[7] = byte(v >> 8), ..., d[1] = byte(v >> 56).
Wide(hi, at, lo) == [i \in 1..8 |-> IF i = at THEN hi ELSE IF i > at THEN lo ELSE 0]

\* The number such an int64 is, for the values below 1 << 31.
ToInt(d) == ((d[5] * 256 + d[6]) * 256 + d[7]) * 256 + d[8]

\* v = int64(b & 0x3f), then v = (v << 8) | int64(b) for each further byte.
RECURSIVE VarintValue(_, _)
VarintValue(bs, i) ==
    IF i = 1 THEN Wide(bs[1] % 64, 8, 0)
    ELSE LET v == VarintValue(bs, i - 1)
         IN [j \in 1..8 |-> IF j = 8 THEN bs[i] ELSE v[j + 1]]

\* The transport's bytes for a varint: value v in the 1 << k byte form
\* (any of the forms wide enough, minimal or not).
RECURSIVE Digits(_, _)
Digits(v, n) == IF n = 0 THEN <<>> ELSE Append(Digits(v \div 256, n - 1), v % 256)

WireVarint(k, v) ==
    LET d == Digits(v, Pow(2, k)) IN [d EXCEPT ![1] = k * 64 + d[1]]

WireVarints(V) == {WireVarint(k, v) : k \in 0..3, v \in V}

\* What the transport does during one readVarint: it delivers bytes, then,
\* if the varint is not complete, answers end (io.EOF or another error).
\* Nothing is drawn for a transport that has ended or is no longer held.
VarintScripts(V) ==
    IF tEOF \/ stream = NilStream
    THEN {[bytes |-> <<>>, end |-> EOF]}
    ELSE {[bytes |-> w, end |-> Nil] : w \in WireVarints(V)}
         \cup UNION {{[bytes |-> SubSeq(w, 1, k), end |-> e] :
                        k \in 0..(Len(w) - 1), e \in {EOF, ErrTransport}} :
                      w \in WireVarints(V)}

\* During one readFrameHeader: a script for the type and, when the type
\* is delivered whole, one for the length.  With a frame open the transport
\* is not consulted.
HeaderScripts ==
    IF lim >= 0
    THEN {<<[bytes |-> <<>>, end |-> EOF], [bytes |-> <<>>, end |-> EOF]>>}
    ELSE UNION {{<<sc1, sc2>> :
                   sc2 \in IF sc1.end = Nil THEN VarintScripts(0..MaxLen)
                                            ELSE {sc1}} :
                sc1 \in VarintScripts(FrameTypes)}

\* Mutant: the error of a later ReadByte is returned as it is, like the
\* first one's.
readVarint_PassThrough(st, sc) ==
    IF st.stream = NilStream THEN NilDeref(st)
    ELSE IF sc.bytes = <<>>
    THEN Outcome(st.lim, st.stream, sc.end, 0, <<>>, <<>>, sc.end, 0, 1)
    ELSE LET n == VarintLen(sc.bytes[1]) IN
         IF Len(sc.bytes) < n
         THEN Outcome(st.lim, st.stream, sc.end, 0, <<>>, sc.bytes,
                      sc.end, Len(sc.bytes), Len(sc.bytes) + 1)
         ELSE LET r == recordBytesRead(st, n) IN
              Outcome(r.lim, r.stream, r.err,
                      IF r.err = Nil THEN VarintValue(sc.bytes, n) ELSE 0,
                      <<>>, SubSeq(sc.bytes, 1, n), Nil, 0, n)

\* Mutant: the error of the first ReadByte becomes the frame error, like
\* the later ones'.
readVarint_AlwaysFrameError(st, sc) ==
    IF st.stream = NilStream THEN NilDeref(st)
    ELSE IF sc.bytes = <<>>
    THEN Outcome(st.lim, st.stream, ErrH3FrameError, 0, <<>>, <<>>, sc.end, 0, 1)
    ELSE LET n == VarintLen(sc.bytes[1]) IN
         IF Len(sc.bytes) < n
         THEN Outcome(st.lim, st.stream, ErrH3FrameError, 0, <<>>, sc.bytes,
                      sc.end, Len(sc.bytes), Len(sc.bytes) + 1)
         ELSE LET r == recordBytesRead(st, n) IN
              Outcome(r.lim, r.stream, r.err,
                      IF r.err = Nil THEN VarintValue(sc.bytes, n) ELSE 0,
                      <<>>, SubSeq(sc.bytes, 1, n), Nil, 0, n)

readVarint(st, sc) ==
    IF st.stream = NilStream THEN NilDeref(st)
    ELSE IF sc.bytes = <<>>
    THEN \* the first ReadByte failed: its error is returned as it is
         Outcome(st.lim, st.stream, sc.end, 0, <<>>, <<>>, sc.end, 0, 1)
    ELSE LET n == VarintLen(sc.bytes[1]) IN
         IF Len(sc.bytes) < n
         THEN \* a later ReadByte failed
              Outcome(st.lim, st.stream, ErrH3FrameError, 0, <<>>, sc.bytes,
                      sc.end, Len(sc.bytes), Len(sc.bytes) + 1)
         ELSE LET r == recordBytesRead(st, n) IN
              Outcome(r.lim, r.stream, r.err,
                      IF r.err = Nil THEN VarintValue(sc.bytes, n) ELSE 0,
                      <<>>, SubSeq(sc.bytes, 1, n), Nil, 0, n)

\* ---------------------------------------------------------- readFrameHeader
\* Mutant: the guard is st.lim > 0, so a header is read over a frame whose
\* contents were read but which was not ended.
readFrameHeader_WeakGuard(st, sc1, sc2) ==
    IF st.lim > 0
    THEN Outcome(st.lim, st.stream, ErrH3FrameError, 0, <<>>, <<>>, Nil, 0, 0)
    ELSE LET r1 == readVarint(st, sc1) IN
         IF r1.err # Nil THEN [r1 EXCEPT !.n = 0]
         ELSE LET r2 == readVarint([lim |-> r1.lim, stream |-> r1.stream], sc2) IN
              IF r2.err # Nil
              THEN Outcome(r2.lim, r2.stream, r2.err, 0, <<>>, r1.got \o r2.got,
                           r2.tend, r2.vk, r1.tcalls + r2.tcalls)
              ELSE Outcome(ToInt(r2.n), r2.stream, Nil, ToInt(r1.n), <<>>,
                           r1.got \o r2.got,
                           Nil, 0, r1.tcalls + r2.tcalls)

\* Mutant: the two varints are taken in the wrong order, the first as the
\* length and the second as the type.
readFrameHeader_Swapped(st, sc1, sc2) ==
    IF st.lim >= 0
    THEN Outcome(st.lim, st.stream, ErrH3FrameError, 0, <<>>, <<>>, Nil, 0, 0)
    ELSE LET r1 == readVarint(st, sc1) IN
         IF r1.err # Nil THEN [r1 EXCEPT !.n = 0]
         ELSE LET r2 == readVarint([lim |-> r1.lim, stream |-> r1.stream], sc2) IN
              IF r2.err # Nil
              THEN Outcome(r2.lim, r2.stream, r2.err, 0, <<>>, r1.got \o r2.got,
                           r2.tend, r2.vk, r1.tcalls + r2.tcalls)
              ELSE Outcome(ToInt(r1.n), r2.stream, Nil, ToInt(r2.n), <<>>,
                           r1.got \o r2.got, Nil, 0, r1.tcalls + r2.tcalls)

readFrameHeader(st, sc1, sc2) ==
    IF st.lim >= 0
    THEN Outcome(st.lim, st.stream, ErrH3FrameError, 0, <<>>, <<>>, Nil, 0, 0)
    ELSE LET r1 == readVarint(st, sc1) IN
         IF r1.err # Nil THEN [r1 EXCEPT !.n = 0]
         ELSE LET r2 == readVarint([lim |-> r1.lim, stream |-> r1.stream], sc2) IN
              IF r2.err # Nil
              THEN Outcome(r2.lim, r2.stream, r2.err, 0, <<>>, r1.got \o r2.got,
                           r2.tend, r2.vk, r1.tcalls + r2.tcalls)
              ELSE Outcome(ToInt(r2.n), r2.stream, Nil, ToInt(r1.n), <<>>,
                           r1.got \o r2.got,
                           Nil, 0, r1.tcalls + r2.tcalls)

\* ----------------------------------------------------------------- endFrame
\* Mutant: the limit is not reset.
endFrame_NoReset(st) ==
    IF st.lim # 0
    THEN Outcome(st.lim, st.stream, ErrH3FrameError, 0, <<>>, <<>>, Nil, 0, 0)
    ELSE Outcome(st.lim, st.stream, Nil, 0, <<>>, <<>>, Nil, 0, 0)

\* Mutant: the check is st.lim > 0, so a frame read past its end (or no
\* frame at all) can be ended.
endFrame_SignCheck(st) ==
    IF st.lim > 0
    THEN Outcome(st.lim, st.stream, ErrH3FrameError, 0, <<>>, <<>>, Nil, 0, 0)
    ELSE Outcome(-1, st.stream, Nil, 0, <<>>, <<>>, Nil, 0, 0)

\* Mutant: an under-read frame is still reported, but the limit is reset.
endFrame_ResetAnyway(st) ==
    IF st.lim # 0
    THEN Outcome(-1, st.stream, ErrH3FrameError, 0, <<>>, <<>>, Nil, 0, 0)
    ELSE Outcome(-1, st.stream, Nil, 0, <<>>, <<>>, Nil, 0, 0)

endFrame(st) ==
    IF st.lim # 0
    THEN Outcome(st.lim, st.stream, ErrH3FrameError, 0, <<>>, <<>>, Nil, 0, 0)
    ELSE Outcome(-1, st.stream, Nil, 0, <<>>, <<>>, Nil, 0, 0)

\* ----------------------------------------------------------------- ReadByte
\* The transport's answers to ReadByte.
ReadByteResponses ==
    IF tEOF \/ stream = NilStream
    THEN {[b |-> 0, err |-> EOF]}
    ELSE {[b |-> x, err |-> Nil] : x \in DataBytes}
         \cup {[b |-> 0, err |-> e] : e \in {EOF, ErrTransport}}

ReadByte(st, resp) ==
    LET r == recordBytesRead(st, 1) IN
    IF r.err # Nil
    THEN Outcome(r.lim, r.stream, r.err, 0, <<>>, <<>>, Nil, 0, 0)
    ELSE IF r.stream = NilStream THEN NilDeref(r)
    ELSE IF resp.err # Nil
    THEN Outcome(r.lim, r.stream, IF resp.err = EOF THEN EOF ELSE ErrH3FrameError,
                 0, <<>>, <<>>, resp.err, 0, 1)
    ELSE Outcome(r.lim, r.stream, Nil, resp.b, <<>>, <<resp.b>>, Nil, 0, 1)

\* --------------------------------------------------------------------- Read
\* The transport's answers to Read(b) with len(b) = L: some bytes, the last
\* bytes together with io.EOF, io.EOF alone, or another error.
ReadResponses(L) ==
    IF tEOF \/ stream = NilStream
    THEN {[bytes |-> <<>>, err |-> EOF]}
    ELSE {[bytes |-> bs, err |-> Nil] : bs \in SeqsUpTo(DataBytes, Min(1, L), L)}
         \cup {[bytes |-> bs, err |-> EOF] : bs \in SeqsUpTo(DataBytes, 0, L)}
         \cup {[bytes |-> <<>>, err |-> ErrTransport]}

Read(st, resp) ==
    IF st.stream = NilStream THEN NilDeref(st)
    ELSE IF resp.err # Nil
    THEN Outcome(st.lim, st.stream,
                 IF resp.err = EOF THEN EOF ELSE ErrH3FrameError,
                 0, <<>>, resp.bytes, resp.err, 0, 1)
    ELSE LET r == recordBytesRead(st, Len(resp.bytes)) IN
         Outcome(r.lim, r.stream, r.err,
                 IF r.err = Nil THEN Len(resp.bytes) ELSE 0,
                 IF r.err = Nil THEN resp.bytes ELSE <<>>,
                 resp.bytes, Nil, 0, 1)

\* ------------------------------------------------------------- readFrameData
\* What the transport does during one readFrameData: avail are the bytes it
\* still delivers, at most chunk per Read; with fin the last of them arrive
\* together with io.EOF; once they are used up it answers end.
FrameDataScripts(need) ==
    IF tEOF \/ need <= 0
    THEN {[avail |-> <<>>, chunk |-> 1, fin |-> FALSE, end |-> EOF]}
    ELSE {[avail |-> a, chunk |-> c, fin |-> (e = "fin"),
           end |-> IF e = "fin" THEN EOF ELSE e] :
            a \in SeqsUpTo(DataBytes, 0, need),
            c \in 1..MaxBuf, e \in {"fin", EOF, ErrTransport}}

\* The transport's answer to a Read of L bytes under such a script.
ScriptRead(sc, L) ==
    IF sc.avail = <<>>
    THEN [bytes |-> <<>>, err |-> sc.end]
    ELSE LET m == Min(Min(sc.chunk, L), Len(sc.avail)) IN
         [bytes |-> SubSeq(sc.avail, 1, m),
          err |-> IF m = Len(sc.avail) /\ sc.fin THEN EOF ELSE Nil]

\* io.ReadFull(st, b) with len(b) = size: st.Read until b is full or a Read
\* fails; io.EOF after some bytes becomes io.ErrUnexpectedEOF.
RECURSIVE ReadFull(_, _, _, _, _, _)
ReadFull(st, size, sc, b, g, tc) ==
    IF Len(b) >= size
    THEN Outcome(st.lim, st.stream, Nil, Len(b), b, g, Nil, 0, tc)
    ELSE LET resp == ScriptRead(sc, size - Len(b))
             r == Read(st, resp)
         IN IF r.err # Nil
            THEN Outcome(r.lim, r.stream,
                         IF r.err = EOF /\ Len(b) > 0 THEN ErrUnexpectedEOF ELSE r.err,
                         Len(b), <<>>, g \o r.got, r.tend, 0, tc + r.tcalls)
            ELSE ReadFull([lim |-> r.lim, stream |-> r.stream], size,
                          [sc EXCEPT !.avail = SubSeq(sc.avail, Len(resp.bytes) + 1,
                                                      Len(sc.avail))],
                          b \o r.data, g \o r.got, tc + r.tcalls)

readFrameData(st, sc) ==
    IF st.lim < 0
    THEN Outcome(st.lim, st.stream, ErrH3FrameError, 0, <<>>, <<>>, Nil, 0, 0)
    ELSE [ReadFull(st, st.lim, sc, <<>>, <<>>, 0) EXCEPT !.n = 0]

\* ------------------------------------------------------------ Write, Flush
\* The transport's answer to Write and Flush.
WriteResponses == {Nil, ErrTransport}

\* Mutant: a write is checked against the read limit, and refused once the
\* frame has been read to its end.
Write_Limited(st, b, terr) ==
    IF st.stream = NilStream THEN NilDeref(st)
    ELSE IF st.lim = 0
    THEN Outcome(st.lim, st.stream, ErrH3FrameError, 0, <<>>, <<>>, Nil, 0, 0)
    ELSE [Outcome(st.lim, st.stream, terr, IF terr = Nil THEN Len(b) ELSE 0,
                  <<>>, <<>>, terr, 0, 1) EXCEPT !.wrote = b]

Write(st, b, terr) ==
    IF st.stream = NilStream THEN NilDeref(st)
    ELSE [Outcome(st.lim, st.stream, terr, IF terr = Nil THEN Len(b) ELSE 0,
                  <<>>, <<>>, terr, 0, 1) EXCEPT !.wrote = b]

Flush(st, terr) ==
    IF st.stream = NilStream THEN NilDeref(st)
    ELSE Outcome(st.lim, st.stream, terr, 0, <<>>, <<>>, terr, 0, 1)

\* -------------------------------------------------------------- writeVarint
\* The values written: each boundary of the four forms, 1 << 62, and the
\* largest int64.
WriteValues ==
    {Wide(0, 8, 0), Wide(63, 8, 0),              \* 0, (1<<6)-1
     Wide(1, 7, 0), Wide(63, 7, 255),            \* 1<<8, (1<<14)-1
     Wide(64, 7, 0), Wide(63, 5, 255),           \* 1<<14, (1<<30)-1
     Wide(64, 5, 0), Wide(63, 1, 255),           \* 1<<30, (1<<62)-1
     Wide(64, 1, 0), Wide(127, 1, 255)}          \* 1<<62, (1<<63)-1

\* v <= (1 << (8*(8-at) + 6)) - 1
FitsAt(d, at) == (\A i \in 1..(at - 1) : d[i] = 0) /\ d[at] <= 63

\* Mutant: the second case tests v <= (1 << 6) - 1 again, so the two byte
\* form is never chosen.
VarintBytes_NoTwoByteForm(d) ==
    IF FitsAt(d, 8) THEN <<d[8]>>
    ELSE IF FitsAt(d, 5) THEN <<128 + d[5], d[6], d[7], d[8]>>
    ELSE IF FitsAt(d, 1) THEN <<192 + d[1], d[2], d[3], d[4], d[5], d[6], d[7], d[8]>>
    ELSE <<>>

\* The bytes handed to WriteByte, or <<>> when v is too large.
VarintBytes(d) ==
    IF FitsAt(d, 8) THEN <<d[8]>>
    ELSE IF FitsAt(d, 7) THEN <<64 + d[7], d[8]>>
    ELSE IF FitsAt(d, 5) THEN <<128 + d[5], d[6], d[7], d[8]>>
    ELSE IF FitsAt(d, 1) THEN <<192 + d[1], d[2], d[3], d[4], d[5], d[6], d[7], d[8]>>
    ELSE <<>>

\* Mutant: no default case; a value above (1 << 62) - 1 is written in the
\* eight byte form, its two highest bits lost.
writeVarint_Truncating(st, d) ==
    LET bs == IF VarintBytes(d) # <<>> THEN VarintBytes(d)
              ELSE <<192 + (d[1] % 64), d[2], d[3], d[4], d[5], d[6], d[7], d[8]>>
    IN IF st.stream = NilStream THEN NilDeref(st)
       ELSE [Outcome(st.lim, st.stream, Nil, 0, <<>>, <<>>, Nil, 0, Len(bs))
                EXCEPT !.wrote = bs]

writeVarint(st, d) ==
    IF VarintBytes(d) = <<>>
    THEN \* panic("varint too large")
         Outcome(st.lim, st.stream, Panic, 0, <<>>, <<>>, Nil, 0, 0)
    ELSE IF st.stream = NilStream THEN NilDeref(st)
    ELSE [Outcome(st.lim, st.stream, Nil, 0, <<>>, <<>>, Nil, 0,
                  Len(VarintBytes(d))) EXCEPT !.wrote = VarintBytes(d)]

\* ------------------------------------------------------------------ actions
st == [lim |-> lim, stream |-> stream]

ByteReads == {"ReadByte", "Read", "readVarint", "readFrameData"}

\* Bytes a successful read hands to its caller.
Consumed(name, r) ==
    IF name = "readFrameData" THEN Len(r.data) ELSE Len(r.got)

\* The call name(a) with outcome r: the fields, what the caller sees, and
\* the account of the frame kept for the properties.
Call(name, a, r) ==
    /\ lim' = r.lim
    /\ stream' = r.stream
    /\ tEOF' = (tEOF \/ r.tend = EOF)
    /\ op' = name
    /\ err' = r.err
    /\ retN' = r.n
    /\ retB' = r.data
    /\ got' = r.got
    /\ plim' = lim
    /\ pstream' = stream
    /\ tend' = r.tend
    /\ vk' = r.vk
    /\ tcalls' = r.tcalls
    /\ wrote' = r.wrote
    /\ arg' = a
    /\ failed' = (failed \/ err = ErrH3FrameError)
    /\ IF name = "readFrameHeader" /\ r.err = Nil
       THEN /\ declared' = r.lim
            /\ delivered' = 0
            /\ consumed' = 0
            /\ clean' = TRUE
       ELSE IF lim >= 0
       THEN /\ declared' = declared
            /\ r.got = <<>> \/ delivered < MaxDelivered
            /\ delivered' = delivered + Len(r.got)
            /\ clean' = IF name \in ByteReads \cup {"readFrameHeader"}
                        THEN clean /\ r.err = Nil
                        ELSE clean
            /\ consumed' = IF ~clean' THEN 0
                           ELSE IF name \in ByteReads
                           THEN consumed + Consumed(name, r) ELSE consumed
       ELSE /\ declared' = declared
            /\ delivered' = 0
            /\ clean' = FALSE
            /\ consumed' = 0
    /\ UNCHANGED <<errArg, target, isResult>>

\* No error is under test.
NoErrorIs ==
    /\ errArg = <<>>
    /\ target = <<>>
    /\ isResult = FALSE

Init ==
    /\ NoErrorIs
    /\ lim = newStream.lim
    /\ stream = newStream.stream
    /\ tEOF = FALSE
    /\ plim = newStream.lim
    /\ pstream = newStream.stream
    /\ op = "newStream"
    /\ err = Nil
    /\ retN = 0
    /\ retB = <<>>
    /\ got = <<>>
    /\ tend = Nil
    /\ vk = 0
    /\ tcalls = 0
    /\ wrote = <<>>
    /\ arg = <<>>
    /\ failed = FALSE
    /\ declared = -1
    /\ delivered = 0
    /\ consumed = 0
    /\ clean = FALSE

CallReadFrameHeader ==
    \E sc \in HeaderScripts :
        Call("readFrameHeader", <<>>, readFrameHeader(st, sc[1], sc[2]))

CallEndFrame == Call("endFrame", <<>>, endFrame(st))

CallReadFrameData ==
    \E sc \in FrameDataScripts(lim) : Call("readFrameData", <<>>, readFrameData(st, sc))

CallReadByte ==
    \E resp \in ReadByteResponses : Call("ReadByte", <<>>, ReadByte(st, resp))

CallRead ==
    \E L \in 0..MaxBuf : \E resp \in ReadResponses(L) : Call("Read", <<>>, Read(st, resp))

CallReadVarint ==
    \E sc \in VarintScripts(0..MaxLen) : Call("readVarint", <<>>, readVarint(st, sc))

CallWrite ==
    \E b \in WriteSlices, terr \in WriteResponses :
        Call("Write", b, Write(st, b, terr))

CallFlush == \E terr \in WriteResponses : Call("Flush", <<>>, Flush(st, terr))

CallWriteVarint == \E d \in WriteValues : Call("writeVarint", d, writeVarint(st, d))

Next ==
    \/ CallReadFrameHeader
    \/ CallEndFrame
    \/ CallReadFrameData
    \/ CallReadByte
    \/ CallRead
    \/ CallReadVarint
    \/ CallWrite
    \/ CallFlush
    \/ CallWriteVarint

Spec == Init /\ [][Next]_vars

\* ------------------------------------------------- writeVarint, readVarint
\* A second specification: one value is written with writeVarint on a new
\* stream, and the peer's readVarint is called on a transport that delivers
\* the bytes written, followed by whatever is sent next.
CodecValues ==
    {Wide(hi, at, lo) : hi \in {0, 1, 63, 64, 255}, at \in 1..8, lo \in {0, 255}}

CodecTails == {<<>>, <<0>>, <<255, 255>>}

CodecInit ==
    /\ NoErrorIs
    /\ lim = newStream.lim
    /\ stream = newStream.stream
    /\ tEOF = FALSE
    /\ plim = newStream.lim
    /\ pstream = newStream.stream
    /\ op = "newStream"
    /\ err = Nil
    /\ retN = 0
    /\ retB = <<>>
    /\ got = <<>>
    /\ tend = Nil
    /\ vk = 0
    /\ tcalls = 0
    /\ wrote = <<>>
    /\ arg \in CodecValues
    /\ failed = FALSE
    /\ declared = -1
    /\ delivered = 0
    /\ consumed = 0
    /\ clean = FALSE

CodecWriteVarint ==
    /\ op = "newStream"
    /\ Call("writeVarint", arg, writeVarint(st, arg))

CodecReadVarint ==
    /\ op = "writeVarint" /\ err = Nil
    /\ \E tail \in CodecTails :
          Call("readVarint", arg,
               readVarint(newStream, [bytes |-> wrote \o tail, end |-> Nil]))

CodecNext == CodecWriteVarint \/ CodecReadVarint

SpecCodec == CodecInit /\ [][CodecNext]_vars

\* ---------------------------------------------------------- backport.ErrorIs
\* A third specification: errors are built layer by layer and tested with
\* backport.ErrorIs.
\*
\* A layer of an error: what it is called, whether it is a net.Error and
\* what its Timeout() and Temporary() answer, the targets its Is method
\* accepts, and whether it has a Backport_Is method.
Layer(name, isNet, timeout, temporary, is, backport) ==
    [name |-> name, net |-> isNet, timeout |-> timeout, temporary |-> temporary,
     is |-> is, backport |-> backport]

\* ErrDeadlineExceeded error = &deadlineExceededError{}
ErrDeadlineExceeded == Layer("ErrDeadlineExceeded", TRUE, TRUE, TRUE, {}, TRUE)

\* Another sentinel error, without a Backport_Is method.
ErrOther == Layer("ErrOther", FALSE, FALSE, FALSE, {}, FALSE)

\* fmt.Errorf(`wrapped: %w`, err)
WrapError == Layer("fmt.wrapError", FALSE, FALSE, FALSE, {}, FALSE)

\* The layers of one kind and another: a net.Error for each pair of answers,
\* and an error whose Is method accepts ErrDeadlineExceeded.
Wrappers ==
    {WrapError}
    \cup {Layer("net.Error", TRUE, t, p, {}, FALSE) : t \in BOOLEAN, p \in BOOLEAN}
    \cup {Layer("isDeadline", FALSE, FALSE, FALSE, {"ErrDeadlineExceeded"}, FALSE)}

\* The innermost errors: nil, a sentinel, or an error that wraps nothing.
Leaves ==
    {<<>>} \cup {<<l>> : l \in Wrappers \cup {ErrDeadlineExceeded, ErrOther}}

Targets == {ErrDeadlineExceeded, ErrOther}

\* errors.Unwrap(err); nil is <<>>.
Unwrap(e) == IF e = <<>> THEN <<>> ELSE Tail(e)

\* errors.Is(err, target): some layer is target or has an Is method that
\* accepts it.
RECURSIVE ErrorsIs(_, _)
ErrorsIs(e, t) ==
    IF e = <<>> THEN FALSE
    ELSE IF e[1] = t \/ t.name \in e[1].is THEN TRUE
    ELSE ErrorsIs(Unwrap(e), t)

\* x.Backport_Is(err) for x = ErrDeadlineExceeded: err is a net.Error whose
\* Timeout() and Temporary() answer as x's do.
Backport_Is(x, e) ==
    /\ e # <<>>
    /\ e[1].net
    /\ x.timeout = e[1].timeout
    /\ x.temporary = e[1].temporary

\* for { if t.Backport_Is(err) ...; if err = errors.Unwrap(err); err == nil ... }
RECURSIVE BackportLoop(_, _)
BackportLoop(t, e) ==
    IF Backport_Is(t, e) THEN TRUE
    ELSE IF Unwrap(e) = <<>> THEN FALSE
    ELSE BackportLoop(t, Unwrap(e))

\* Mutant: target.Backport_Is is asked about err only, not about the layers
\* under it.
ErrorIs_NoLoop(e, t) ==
    IF ErrorsIs(e, t) THEN TRUE
    ELSE IF ~t.backport THEN FALSE
    ELSE Backport_Is(t, e)

ErrorIs(e, t) ==
    IF ErrorsIs(e, t) THEN TRUE
    ELSE IF ~t.backport THEN FALSE
    ELSE BackportLoop(t, e)

ErrorsInit ==
    /\ errArg \in Leaves
    /\ target \in Targets
    /\ isResult = FALSE
    /\ lim = newStream.lim
    /\ stream = newStream.stream
    /\ tEOF = FALSE
    /\ plim = newStream.lim
    /\ pstream = newStream.stream
    /\ op = "newStream"
    /\ err = Nil
    /\ retN = 0
    /\ retB = <<>>
    /\ got = <<>>
    /\ tend = Nil
    /\ vk = 0
    /\ tcalls = 0
    /\ wrote = <<>>
    /\ arg = <<>>
    /\ failed = FALSE
    /\ declared = -1
    /\ delivered = 0
    /\ consumed = 0
    /\ clean = FALSE

\* err is wrapped in one more layer.
CallWrap ==
    /\ Len(errArg) < MaxChain
    /\ \E l \in Wrappers : errArg' = <<l>> \o errArg
    /\ isResult' = FALSE
    /\ op' = "Wrap"
    /\ UNCHANGED <<lim, stream, tEOF, plim, pstream, err, retN, retB, got, tend, vk,
                   tcalls, wrote, arg, failed, declared, delivered, clean, consumed,
                   target>>

CallErrorIs ==
    /\ op # "ErrorIs"
    /\ isResult' = ErrorIs(errArg, target)
    /\ op' = "ErrorIs"
    /\ UNCHANGED <<lim, stream, tEOF, plim, pstream, err, retN, retB, got, tend, vk,
                   tcalls, wrote, arg, failed, declared, delivered, clean, consumed,
                   errArg, target>>

ErrorsNext == CallWrap \/ CallErrorIs

SpecErrors == ErrorsInit /\ [][ErrorsNext]_vars

\* ================================================================ properties

\* A transport that delivers a whole frame header.
WholeHeaders ==
    {<<[bytes |-> w1, end |-> Nil], [bytes |-> w2, end |-> Nil]>> :
        w1 \in WireVarints(FrameTypes), w2 \in WireVarints(0..MaxLen)}

\* readFrameHeader, called now on a transport delivering a whole header,
\* is accepted / is rejected with the frame error.
HeaderAccepted ==
    \A h \in WholeHeaders : readFrameHeader(st, h[1], h[2]).err = Nil

HeaderRejected ==
    \A h \in WholeHeaders : readFrameHeader(st, h[1], h[2]).err = ErrH3FrameError

\* C1: after a successful readFrameHeader declaring N bytes, when every call
\* since was a successful byte-level read (ReadByte, Read, readVarint,
\* readFrameData) and they returned N bytes in total, endFrame succeeds, lim
\* is -1 again and a following readFrameHeader is accepted.
C1_EndFrameAfterExactRead ==
    (op = "endFrame" /\ plim >= 0 /\ clean /\ consumed = declared)
    => (err = Nil /\ lim = -1 /\ HeaderAccepted)

C1_Witness ==
    /\ op = "endFrame" /\ plim >= 0 /\ clean
    /\ declared = MaxLen /\ consumed = MaxLen
    /\ err = Nil /\ lim = -1

\* C2: with a frame open, a byte-level read that passes the limit fails with
\* the frame error and discards the transport handle: ReadByte with nothing
\* remaining, and a Read or readVarint to which the transport delivers,
\* without error, more bytes than remain.
Crossing ==
    /\ plim >= 0
    /\ \/ op = "ReadByte" /\ plim = 0
       \/ op \in {"Read", "readVarint"} /\ tend = Nil /\ Len(got) > plim

ReturnedErrors == {ErrH3FrameError, EOF, ErrUnexpectedEOF, ErrTransport}

C4_NestedHeaderRejected ==
    (op = "readFrameHeader" /\ plim >= 0)
    => (err = ErrH3FrameError /\ tcalls = 0 /\ got = <<>> /\ lim = plim
        /\ stream = pstream)

C4_Witness ==
    op = "readFrameHeader" /\ plim = 0 /\ err = ErrH3FrameError /\ lim = 0

\* C5: endFrame called with lim > 0 fails with the frame error, leaves lim
\* as it was, and a following readFrameHeader is still rejected.
C5_EarlyEndFrameRejected ==
    (op = "endFrame" /\ plim > 0)
    => (err = ErrH3FrameError /\ lim = plim /\ HeaderRejected)

C5_Witness ==
    op = "endFrame" /\ plim = 1 /\ declared = 2 /\ err = ErrH3FrameError /\ lim = 1

\* C6: when endFrame succeeds, the transport has delivered, since the header
\* of the frame, every byte that header declared: endFrame never succeeds on
\* a frame whose declared contents were not all read.
C6_EndFrameOnlyAfterFullDelivery ==
    (op = "endFrame" /\ err = Nil) => delivered >= declared

\* C7: when the transport ends after the first byte of a varint and before
\* its last, readVarint, and readFrameHeader through it, fail with the frame
\* error.
C7_TruncatedVarintIsFrameError ==
    (op \in {"readVarint", "readFrameHeader"} /\ tend = EOF /\ vk >= 1)
    => err = ErrH3FrameError

C7_Witness ==
    /\ op = "readVarint" /\ tend = EOF /\ vk = 3 /\ got = <<192, 0, 0>>
    /\ err = ErrH3FrameError

\* C8: with no frame open and the handle held, when the transport ends
\* before the first byte of a header, readFrameHeader returns io.EOF and
\* leaves lim at -1 and the handle in place.
C8_CleanEndBetweenFrames ==
    (op = "readFrameHeader" /\ plim = -1 /\ pstream = QS
        /\ tend = EOF /\ got = <<>>)
    => (err = EOF /\ lim = -1 /\ stream = QS)

C8_Witness ==
    /\ op = "readFrameHeader" /\ plim = -1 /\ pstream = QS
    /\ tend = EOF /\ got = <<>> /\ tcalls = 1 /\ err = EOF /\ declared = MaxLen

\* C9: when the transport ends after readFrameHeader has read at least one
\* byte of the header, readFrameHeader fails with the frame error.
C9_PartialHeaderIsFrameError ==
    (op = "readFrameHeader" /\ tend = EOF /\ Len(got) >= 1)
    => err = ErrH3FrameError

\* C10: readFrameData called with lim = r >= 0, when the transport delivers
\* r bytes, returns those bytes in order and leaves lim = 0; called with no
\* frame open it fails with the frame error and reads nothing.
C10_ReadFrameDataReturnsFrame ==
    op = "readFrameData" =>
        /\ (plim >= 0 /\ Len(got) = plim)
              => (err = Nil /\ retB = got /\ lim = 0)
        /\ plim < 0 => (err = ErrH3FrameError /\ tcalls = 0 /\ lim = plim)

\* C11: readFrameData called with lim = r > 0, when the transport ends
\* before it has delivered r bytes, fails with the frame error.
C11_ShortFrameIsFrameError ==
    (op = "readFrameData" /\ plim > 0 /\ tend = EOF /\ Len(got) < plim)
    => err = ErrH3FrameError

\* C12: once a call has returned the frame error, no later call succeeds.
C12_FrameErrorIsFatal ==
    failed => err # Nil

\* C13: when the transport answers ReadByte, Read, readVarint or
\* readFrameHeader with an error other than io.EOF, the method returns that
\* error.
C13_TransportErrorUnchanged ==
    (op \in {"ReadByte", "Read", "readVarint", "readFrameHeader"}
        /\ tend = ErrTransport)
    => err = ErrTransport

\* C14: on a stream that holds its handle, idle or inside a frame, Write
\* and Flush reach the transport once and return its answer, writeVarint
\* hands the bytes of every value of at most (1 << 62) - 1 to the transport,
\* none of them is refused with the frame error, and lim is left as it was.
C14_WritesPassThrough ==
    (op \in {"Write", "Flush", "writeVarint"} /\ pstream = QS)
    => /\ lim = plim
       /\ stream = QS
       /\ err # ErrH3FrameError
       /\ op \in {"Write", "Flush"} => (tcalls = 1 /\ err = tend)
       /\ op = "Write" => wrote = arg
       /\ (op = "writeVarint" /\ FitsAt(arg, 1))
          => (err = Nil /\ wrote # <<>> /\ tcalls = Len(wrote))

C14_Witness ==
    /\ op = "Write" /\ pstream = QS /\ plim = 0
    /\ err = Nil /\ wrote = <<0, 1>>

RECURSIVE WideLeqFrom(_, _, _)
WideLeqFrom(a, b, i) ==
    IF i > 8 THEN TRUE
    ELSE IF a[i] # b[i] THEN a[i] < b[i]
    ELSE WideLeqFrom(a, b, i + 1)

WideLeq(a, b) == WideLeqFrom(a, b, 1)

\* The form the encoding prescribes for v: 0 to 3 for 1, 2, 4, 8 bytes.
MinimalForm(v) ==
    IF WideLeq(v, Wide(63, 8, 0)) THEN 0             \* v <= 63
    ELSE IF WideLeq(v, Wide(63, 7, 255)) THEN 1      \* v <= 16383
    ELSE IF WideLeq(v, Wide(63, 5, 255)) THEN 2      \* v <= 1073741823
    ELSE 3

\* C16: for 0 <= v <= (1 << 62) - 1, writeVarint(v) writes the minimal
\* form, 1, 2, 4 or 8 bytes with the top two bits of the first byte 00,
\* 01, 10, 11, and readVarint on those bytes returns v and reads exactly
\* those bytes.
C16_RoundTrip ==
    WideLeq(arg, Wide(63, 1, 255))
    => /\ op = "writeVarint"
          => /\ err = Nil
             /\ Len(wrote) = Pow(2, MinimalForm(arg))
             /\ wrote[1] \div 64 = MinimalForm(arg)
       /\ op = "readVarint"
          => /\ err = Nil
             /\ retN = arg
             /\ Len(got) = Pow(2, MinimalForm(arg))
             /\ tcalls = Len(got)

C16_Witness ==
    /\ op = "readVarint" /\ err = Nil
    /\ arg = Wide(63, 1, 255) /\ retN = arg /\ Len(got) = 8

\* C17: backport.ErrorIs(err, target) is true when errors.Is(err, target)
\* is, and otherwise exactly when target has a Backport_Is method that some
\* layer of err satisfies.  For ErrDeadlineExceeded, the result for
\* fmt.Errorf("%w", err) is the result for err, and it is true for every
\* err with a layer that is a net.Error whose Timeout() and Temporary() are
\* both true.
C17_ErrorIs ==
    op = "ErrorIs"
    => /\ isResult =
            (\/ ErrorsIs(errArg, target)
             \/ /\ target.backport
                /\ \E i \in 1..Len(errArg) :
                       Backport_Is(target, SubSeq(errArg, i, Len(errArg))))
       /\ (target = ErrDeadlineExceeded /\ errArg # <<>> /\ errArg[1] = WrapError)
          => isResult = ErrorIs(Tail(errArg), target)
       /\ (/\ target = ErrDeadlineExceeded
           /\ \E i \in 1..Len(errArg) :
                  errArg[i].net /\ errArg[i].timeout /\ errArg[i].temporary)
          => isResult

C17_Witness ==
    /\ op = "ErrorIs" /\ target = ErrDeadlineExceeded /\ isResult
    /\ Len(errArg) = 3 /\ errArg[1] = WrapError /\ errArg[2] = WrapError
    /\ errArg[3].net /\ errArg[3].name = "net.Error"

\* C18: after every ReadByte, Read and readVarint, failed ones included, that
\* leaves the stream inside a frame with its handle held, lim is the length
\* the header declared less the bytes the transport has delivered since.
C18_ChargeIsDelivery ==
    (op \in {"ReadByte", "Read", "readVarint"} /\ stream = QS /\ lim >= 0)
    => lim = declared - delivered

\* C19: a successful readFrameHeader was called with no frame open, read
\* the bytes of two varints, returned the first as the frame type and set
\* lim to the second, whole and not less than 0.
C19_HeaderSetsLimit ==
    (op = "readFrameHeader" /\ err = Nil)
    => /\ plim < 0
       /\ lim >= 0
       /\ lim = declared
       /\ stream = QS
       /\ tcalls = Len(got)
       /\ \E k1, k2 \in 0..3 : got = WireVarint(k1, retN) \o WireVarint(k2, lim)

C19_Witness ==
    /\ op = "readFrameHeader" /\ err = Nil /\ plim = -1
    /\ got = <<1, 64, 3>> /\ retN = 1 /\ lim = 3

\* C20: while the stream holds its handle, -1 <= lim and lim is at most the
\* length declared by the last successful readFrameHeader; once the handle
\* is discarded it stays discarded, lim stays below 0 and endFrame does not
\* succeed.
C20_RepresentationInvariant ==
    /\ stream = QS => (-1 <= lim /\ lim <= declared)
    /\ stream = NilStream => lim < 0
    /\ pstream = NilStream
       => /\ stream = NilStream
          /\ lim = plim
          /\ ~(op = "endFrame" /\ err = Nil)

C20_Witness ==
    /\ op = "endFrame" /\ pstream = NilStream /\ plim = -2
    /\ lim = -2 /\ err = ErrH3FrameError
====
